---- MODULE Spec2Model ----
(***************************************************************************)
(* Model of the TradingView alert pipeline:                                *)
(*   - src/src/mastra/workflows/trading-workflow.ts: the three-step        *)
(*     workflow analyze-alert -> execute-trade -> log-trade-event;         *)
(*   - src/src/mastra/mcp.ts: the Mastra webhook handler (lines 18-256)    *)
(*     and the demo webhook handler (lines 257-436).                       *)
(*                                                                         *)
(* Text is modelled as a sequence of tokens (a keyword, a separator, one   *)
(* digit, a percent sign, a word), each kept in the letter case in which   *)
(* the agent wrote it.  The agent's text stream is a sequence of chunks,   *)
(* each chunk a sequence of tokens.                                        *)
(***************************************************************************)
EXTENDS Integers, Sequences, FiniteSets, TLC

VARIABLES
    mode,          \* which program runs: "workflow", "mastra" or "demo"
    pc,            \* position of the run / request handler
    now,           \* Date.now()
    agentAvail,    \* whether mastra.getAgent('tradingAgent') yields an agent
    inputPresent,  \* whether the step is handed inputData
    stream,        \* response.textStream: the chunks not yet delivered
    analysisText,  \* the text concatenated so far (analysisText / executionResult)
    agentCalls,    \* number of agent.stream calls made
    simCalls,      \* number of simulateAIAnalysis calls made
    inputData,     \* workflow: the alert given to the run
    analysis,      \* <<>> or <<the Analysis>> (step 1's result / demo analysis)
    execution,     \* <<>> or <<the ExecutionResult>> (step 2's result)
    logging,       \* <<>> or <<step 3's result>>
    stepsRun,      \* workflow: ids of the steps whose execute was entered, in order
    body,          \* webhook: req.body
    alertData,     \* webhook: <<>> or <<the normalized alert>>
    logs,          \* the TRADING EVENT LOG entries emitted on the console
    responses,     \* webhook: the HTTP responses sent for the request
    error,         \* <<>> or <<message of the error thrown>>
    response,      \* the chunks the last agent.stream call resolved with
    reqs,          \* concurrent requests: the state local to each handler call
    console        \* concurrent requests: the log entries, in emission order

vars == <<mode, pc, now, agentAvail, inputPresent, stream, analysisText,
          agentCalls, simCalls, inputData, analysis, execution, logging,
          stepsRun, body, alertData, logs, responses, error, response, reqs,
          console>>

----------------------------------------------------------------------------
(* Bounds of the model.                                                    *)

\* Largest number of chunks in one agent text stream.
MaxChunks == 3

\* Largest number of fields in which a request body differs from the
\* minimal well-formed body {symbol, price, action}.
MaxEdits == 2

\* Largest value of the clock (Date.now()), which starts at 1.
MaxNow == 2

----------------------------------------------------------------------------
(* JSON / JavaScript values.                                               *)

Undef == [t |-> "undefined", n |-> 0, s |-> ""]
Null == [t |-> "null", n |-> 0, s |-> ""]
Num(x) == [t |-> "number", n |-> x, s |-> ""]
Str(x) == [t |-> "string", n |-> 0, s |-> x]

\* JavaScript truthiness: undefined, null, 0 and "" are falsy.
Truthy(v) ==
    CASE v.t = "number" -> v.n # 0
      [] v.t = "string" -> v.s # ""
      [] OTHER -> FALSE

\* a || b
JsOr(a, b) == IF Truthy(a) THEN a ELSE b

\* a ?? b : the reference (nullish coalescing) semantics.
Nullish(v) == v.t \in {"undefined", "null"}
Coalesce(a, b) == IF Nullish(a) THEN b ELSE a

----------------------------------------------------------------------------
(* Text, and the three regular expressions of analyze-alert.               *)

\* Letter-case folding of the /i flag, on the tokens that carry letters.
LowerOf ==
    [w \in {"Confidence", "CONFIDENCE", "Recommended Action", "RECOMMENDED ACTION",
            "Risk Level", "RISK LEVEL", "Buy", "BUY", "Sell", "SELL", "Hold", "HOLD",
            "Low", "LOW", "Medium", "MEDIUM", "High", "HIGH"} |->
        CASE w \in {"Confidence", "CONFIDENCE"} -> "confidence"
          [] w \in {"Recommended Action", "RECOMMENDED ACTION"} -> "recommended action"
          [] w \in {"Risk Level", "RISK LEVEL"} -> "risk level"
          [] w \in {"Buy", "BUY"} -> "buy"
          [] w \in {"Sell", "SELL"} -> "sell"
          [] w \in {"Hold", "HOLD"} -> "hold"
          [] w \in {"Low", "LOW"} -> "low"
          [] w \in {"Medium", "MEDIUM"} -> "medium"
          [] OTHER -> "high"]

ToLower(w) == IF w \in DOMAIN LowerOf THEN LowerOf[w] ELSE w

\* [:\s]
IsSep(w) == w \in {":", " "}

DigitValue ==
    [d \in {"0", "1", "2", "3", "4", "5", "6", "7", "8", "9"} |->
        CASE d = "0" -> 0 [] d = "1" -> 1 [] d = "2" -> 2 [] d = "3" -> 3
          [] d = "4" -> 4 [] d = "5" -> 5 [] d = "6" -> 6 [] d = "7" -> 7
          [] d = "8" -> 8 [] OTHER -> 9]

\* \d
IsDigit(w) == w \in DOMAIN DigitValue

\* [:\s]* from position j: the position after the longest run of separators.
RECURSIVE SkipSeps(_, _)
SkipSeps(text, j) ==
    IF j <= Len(text) /\ IsSep(text[j]) THEN SkipSeps(text, j + 1) ELSE j

\* \d+ from position j: the position after the longest run of digits.
RECURSIVE SkipDigits(_, _)
SkipDigits(text, j) ==
    IF j <= Len(text) /\ IsDigit(text[j]) THEN SkipDigits(text, j + 1) ELSE j

\* parseInt(digits), base 10.
RECURSIVE parseInt(_)
parseInt(ds) ==
    IF ds = <<>> THEN 0
    ELSE 10 * parseInt(SubSeq(ds, 1, Len(ds) - 1)) + DigitValue[ds[Len(ds)]]

MinOf(S) == CHOOSE x \in S : \A y \in S : x <= y

\* Whether /<keyword>[:\s]*(\d+)%/i matches at position i.
NumberMarkerAt(text, keyword, i) ==
    /\ ToLower(text[i]) = keyword
    /\ LET j == SkipSeps(text, i + 1)
           k == SkipDigits(text, j)
       IN  k > j /\ k <= Len(text) /\ text[k] = "%"

\* Whether /<keyword>[:\s]*(w1|w2|w3)/i matches at position i.
WordMarkerAt(text, keyword, words, i) ==
    /\ ToLower(text[i]) = keyword
    /\ LET j == SkipSeps(text, i + 1)
       IN  j <= Len(text) /\ ToLower(text[j]) \in words

\* analysisText.match(/confidence[:\s]*(\d+)%/i): <<>> for null, else <<group 1>>.
confidenceMatch(text) ==
    LET at == {i \in 1..Len(text) : NumberMarkerAt(text, "confidence", i)}
    IN  IF at = {} THEN <<>>
        ELSE LET j == SkipSeps(text, MinOf(at) + 1)
             IN  <<SubSeq(text, j, SkipDigits(text, j) - 1)>>

\* The first capture group keeps the text as written.
WordCapture(text, j) == text[j]

\* analysisText.match(/recommended action[:\s]*(buy|sell|hold)/i)
actionMatch(text) ==
    LET words == {"buy", "sell", "hold"}
        at == {i \in 1..Len(text) : WordMarkerAt(text, "recommended action", words, i)}
    IN  IF at = {} THEN <<>>
        ELSE <<WordCapture(text, SkipSeps(text, MinOf(at) + 1))>>

\* analysisText.match(/risk level[:\s]*(low|medium|high)/i)
riskMatch(text) ==
    LET words == {"low", "medium", "high"}
        at == {i \in 1..Len(text) : WordMarkerAt(text, "risk level", words, i)}
    IN  IF at = {} THEN <<>>
        ELSE <<WordCapture(text, SkipSeps(text, MinOf(at) + 1))>>

\* Mutant of ExtractConfidence: the default is 0 instead of 50.
ExtractConfidence_DefaultZero(text) ==
    LET m == confidenceMatch(text) IN IF m # <<>> THEN parseInt(m[1]) ELSE 0

\* const confidence = confidenceMatch ? parseInt(confidenceMatch[1]) : 50
ExtractConfidence(text) ==
    LET m == confidenceMatch(text) IN IF m # <<>> THEN parseInt(m[1]) ELSE 50

\* Mutant of ExtractAction: the default is 'buy' instead of 'hold'.
ExtractAction_DefaultBuy(text) ==
    LET m == actionMatch(text) IN IF m # <<>> THEN m[1] ELSE "buy"

\* const recommendedAction = actionMatch ? actionMatch[1] : 'hold'
ExtractAction(text) ==
    LET m == actionMatch(text) IN IF m # <<>> THEN m[1] ELSE "hold"

\* const riskLevel = riskMatch ? riskMatch[1] : 'medium'
ExtractRisk(text) ==
    LET m == riskMatch(text) IN IF m # <<>> THEN m[1] ELSE "medium"

\* The object analyze-alert returns.
MakeAnalysis(alert, text) ==
    [symbol |-> alert.symbol,
     currentPrice |-> alert.price,
     recommendedAction |-> ExtractAction(text),
     confidence |-> ExtractConfidence(text),
     reasoning |-> text,
     riskLevel |-> ExtractRisk(text),
     timeframe |-> JsOr(alert.timeframe, Str("1h"))]

\* tradingAnalysisSchema, on the fields the extractor fills.
tradingAnalysisSchema(a) ==
    /\ a.recommendedAction \in {"buy", "sell", "hold"}
    /\ a.confidence >= 0 /\ a.confidence <= 100
    /\ a.riskLevel \in {"low", "medium", "high"}

----------------------------------------------------------------------------
(* The agent (external collaborator): agent.stream(messages) either        *)
(* rejects or resolves to a response whose textStream delivers a finite    *)
(* sequence of chunks and may fail before any of them.                     *)

\* Chunks the agent may send in answer to the analysis prompt.
AnalysisFragments ==
    { <<"confidence", ":", " ", "1">>,
      <<"0", "0", "%">>,
      <<"5", "0", "%">>,
      <<"Confidence", " ", "6", "9", "%">>,
      <<"CONFIDENCE", ":", "7", "0", "%">>,
      <<"recommended action", ":", " ", "buy">>,
      <<"recommended action", " ", "hold">>,
      <<"Recommended Action", ":", " ", "HOLD">>,
      <<"risk level", ":", " ", "low">>,
      <<"Risk Level", ":", "HIGH">>,
      <<"x">> }

\* Chunks the agent may send in answers whose text is not parsed: to the
\* execution prompt of the workflow and to the prompt of the webhook handler.
PlainFragments == { <<"x">>, <<"confidence", ":", "7", "0", "%">> }

AgentResponses(fragments) ==
    UNION { [1..n -> fragments] : n \in 0..MaxChunks }

\* Streams of up to MaxChunks plain chunks, neighbouring chunks different.
Alternating(first, second, n) ==
    [i \in 1..n |-> IF i % 2 = 1 THEN first ELSE second]

PlainResponses ==
    { Alternating(p[1], p[2], n) :
        p \in {q \in PlainFragments \X PlainFragments : q[1] # q[2]},
        n \in 0..MaxChunks }

\* Alerts given to the workflow (they satisfy tradingViewAlertSchema).
Alert(symbol, price, action, timeframe, timestamp) ==
    [symbol |-> symbol, price |-> price, action |-> action, strategy |-> Undef,
     timeframe |-> timeframe, exchange |-> Undef, timestamp |-> timestamp,
     message |-> Undef, volume |-> Undef, rsi |-> Undef, macd |-> Undef]

WorkflowAlerts ==
    { Alert(Str("BTCUSDT"), Num(45000), Str("buy"), Str("4h"), Num(1)),
      Alert(Str("BTCUSDT"), Num(45000), Str("alert"), Undef, Num(1)) }

----------------------------------------------------------------------------
(* The workflow: analyze-alert, execute-trade, log-trade-event.            *)

\* Mutant of StepThrows: the run carries on with the log step.
StepThrows_ContinuesToLog(msg) ==
    /\ pc' = "log"
    /\ error' = <<msg>>

\* A step that throws fails the run; the steps after it do not run.
StepThrows(msg) ==
    /\ pc' = "failed"
    /\ error' = <<msg>>

\* Step 1, up to `await agent.stream(...)`.
AnalyzeAlertBegin ==
    /\ mode = "workflow" /\ pc = "analyze"
    /\ stepsRun' = Append(stepsRun, "analyze-alert")
    /\ IF ~inputPresent
       THEN /\ StepThrows("Alert data not found")
            /\ UNCHANGED <<stream, agentCalls, response>>
       ELSE IF ~agentAvail
       THEN /\ StepThrows("Trading agent not found")
            /\ UNCHANGED <<stream, agentCalls, response>>
       ELSE /\ agentCalls' = agentCalls + 1
            /\ \E rejects \in BOOLEAN, r \in AgentResponses(AnalysisFragments) :
                 IF rejects
                 THEN /\ StepThrows("agent.stream rejected")
                      /\ stream' = <<>> /\ UNCHANGED response
                 ELSE /\ pc' = "analyzeStream" /\ stream' = r /\ response' = r
                      /\ UNCHANGED error
    /\ UNCHANGED <<mode, now, agentAvail, inputPresent, analysisText, simCalls,
                   inputData, analysis, execution, logging, body, alertData,
                   logs, responses,
                   reqs, console>>

\* for await (const chunk of response.textStream) analysisText += chunk
AnalyzeAlertChunk ==
    /\ mode = "workflow" /\ pc = "analyzeStream"
    /\ stream # <<>>
    /\ analysisText' = analysisText \o Head(stream)
    /\ stream' = Tail(stream)
    /\ UNCHANGED <<mode, pc, now, agentAvail, inputPresent, agentCalls, simCalls,
                   inputData, analysis, execution, logging, stepsRun, body,
                   alertData, logs, responses, error,
                   response, reqs, console>>

\* Mutant of AnalyzeAlertStreamError: the step calls the agent again.
AnalyzeAlertStreamError_Retries ==
    /\ mode = "workflow" /\ pc = "analyzeStream"
    /\ agentCalls' = agentCalls + 1
    /\ stream' = response
    /\ analysisText' = <<>>
    /\ UNCHANGED <<mode, pc, now, agentAvail, inputPresent, simCalls, inputData,
                   analysis, execution, logging, stepsRun, body, alertData,
                   logs, responses, error, response, reqs, console>>

\* The text stream throws while it is being read.
AnalyzeAlertStreamError ==
    /\ mode = "workflow" /\ pc = "analyzeStream"
    /\ StepThrows("text stream failed")
    /\ UNCHANGED <<mode, now, agentAvail, inputPresent, stream, analysisText,
                   agentCalls, simCalls, inputData, analysis, execution, logging,
                   stepsRun, body, alertData, logs, responses,
                   response, reqs, console>>

\* Mutant of AnalyzeAlertReturn: the step parses whatever text has arrived.
AnalyzeAlertReturn_Early ==
    /\ mode = "workflow" /\ pc = "analyzeStream"
    /\ analysis' = <<[symbol |-> inputData.symbol,
                      currentPrice |-> inputData.price,
                      recommendedAction |-> ExtractAction(analysisText),
                      confidence |-> ExtractConfidence(analysisText),
                      reasoning |-> analysisText,
                      riskLevel |-> ExtractRisk(analysisText),
                      timeframe |-> JsOr(inputData.timeframe, Str("1h"))]>>
    /\ pc' = "execute"
    /\ UNCHANGED <<mode, now, agentAvail, inputPresent, stream, analysisText,
                   agentCalls, simCalls, inputData, execution, logging, stepsRun,
                   body, alertData, logs, responses, error, response, reqs,
                   console>>

\* The stream is exhausted: parse the text and return the Analysis.
AnalyzeAlertReturn ==
    /\ mode = "workflow" /\ pc = "analyzeStream"
    /\ stream = <<>>
    /\ analysis' = <<MakeAnalysis(inputData, analysisText)>>
    /\ pc' = "execute"
    /\ UNCHANGED <<mode, now, agentAvail, inputPresent, stream, analysisText,
                   agentCalls, simCalls, inputData, execution, logging, stepsRun,
                   body, alertData, logs, responses, error,
                   response, reqs, console>>

\* Mutant of GateSkips: the threshold test is <= instead of <.
GateSkips_OffByOne(a) == a.confidence <= 70 \/ a.recommendedAction = "hold"

\* if (inputData.confidence < 70 || inputData.recommendedAction === 'hold')
GateSkips(a) == a.confidence < 70 \/ a.recommendedAction = "hold"

\* Mutant of SkippedResult: the skipped result carries a trade id.
SkippedResult_WithTradeId(a, t) ==
    [executed |-> FALSE,
     tradeId |-> <<t>>,
     message |-> <<"Trade not executed: ", "Low confidence">>,
     timestamp |-> t]

SkippedResult(a, t) ==
    [executed |-> FALSE,
     tradeId |-> <<>>,
     message |-> IF a.recommendedAction = "hold"
                 THEN <<"Trade not executed: ", "Hold recommendation">>
                 ELSE <<"Trade not executed: ", "Low confidence">>,
     timestamp |-> t]

ExecutedResult(a, t) ==
    [executed |-> TRUE,
     tradeId |-> <<t>>,
     message |-> <<"Trade executed: ", a.recommendedAction, a.symbol.s, a.currentPrice.n>>,
     timestamp |-> t]

\* Step 2, up to its return (gate skips) or `await agent.stream(...)`.
ExecuteTradeBegin ==
    /\ mode = "workflow" /\ pc = "execute"
    /\ stepsRun' = Append(stepsRun, "execute-trade")
    /\ IF analysis = <<>>
       THEN /\ StepThrows("Analysis data not found")
            /\ UNCHANGED <<stream, agentCalls, execution, analysisText, response>>
       ELSE IF ~agentAvail
       THEN /\ StepThrows("Trading agent not found")
            /\ UNCHANGED <<stream, agentCalls, execution, analysisText, response>>
       ELSE IF GateSkips(analysis[1])
       THEN /\ execution' = <<SkippedResult(analysis[1], now)>>
            /\ pc' = "log"
            /\ UNCHANGED <<stream, agentCalls, error, analysisText, response>>
       ELSE /\ agentCalls' = agentCalls + 1
            /\ analysisText' = <<>>
            /\ UNCHANGED execution
            /\ \E rejects \in BOOLEAN, r \in PlainResponses :
                 IF rejects
                 THEN /\ StepThrows("agent.stream rejected")
                      /\ stream' = <<>> /\ UNCHANGED response
                 ELSE /\ pc' = "executeStream" /\ stream' = r /\ response' = r
                      /\ UNCHANGED error
    /\ UNCHANGED <<mode, now, agentAvail, inputPresent, simCalls, inputData,
                   analysis, logging, body, alertData, logs, responses,
                   reqs, console>>

\* for await (const chunk of response.textStream) executionResult += chunk
ExecuteTradeChunk ==
    /\ mode = "workflow" /\ pc = "executeStream"
    /\ stream # <<>>
    /\ analysisText' = analysisText \o Head(stream)
    /\ stream' = Tail(stream)
    /\ UNCHANGED <<mode, pc, now, agentAvail, inputPresent, agentCalls, simCalls,
                   inputData, analysis, execution, logging, stepsRun, body,
                   alertData, logs, responses, error,
                   response, reqs, console>>

\* Mutant of ExecuteTradeStreamError: the step catches the error and returns
\* a result with executed = false.
ExecuteTradeStreamError_Caught ==
    /\ mode = "workflow" /\ pc = "executeStream"
    /\ error' = <<"text stream failed">>
    /\ execution' = <<[executed |-> FALSE, tradeId |-> <<>>,
                       message |-> <<"Trade not executed: ", "text stream failed">>,
                       timestamp |-> now]>>
    /\ pc' = "log"
    /\ UNCHANGED <<mode, now, agentAvail, inputPresent, stream, analysisText,
                   agentCalls, simCalls, inputData, analysis, logging,
                   stepsRun, body, alertData, logs, responses,
                   response, reqs, console>>

\* The execution call's text stream throws: nothing in the step catches it.
ExecuteTradeStreamError ==
    /\ mode = "workflow" /\ pc = "executeStream"
    /\ StepThrows("text stream failed")
    /\ UNCHANGED <<mode, now, agentAvail, inputPresent, stream, analysisText,
                   agentCalls, simCalls, inputData, analysis, execution, logging,
                   stepsRun, body, alertData, logs, responses,
                   response, reqs, console>>

ExecuteTradeReturn ==
    /\ mode = "workflow" /\ pc = "executeStream"
    /\ stream = <<>>
    /\ execution' = <<ExecutedResult(analysis[1], now)>>
    /\ pc' = "log"
    /\ UNCHANGED <<mode, now, agentAvail, inputPresent, stream, analysisText,
                   agentCalls, simCalls, inputData, analysis, logging, stepsRun,
                   body, alertData, logs, responses, error,
                   response, reqs, console>>

\* Step 3.
WorkflowLogEntry(result, t) ==
    [id |-> t, timestamp |-> t, execution |-> result]

LogTradeEvent ==
    /\ mode = "workflow" /\ pc = "log"
    /\ stepsRun' = Append(stepsRun, "log-trade-event")
    /\ IF execution = <<>>
       THEN /\ StepThrows("Trade event data not found")
            /\ UNCHANGED <<logs, logging>>
       ELSE /\ logs' = Append(logs, WorkflowLogEntry(execution[1], now))
            /\ logging' = <<[logged |-> TRUE, logId |-> now]>>
            /\ pc' = "done"
            /\ UNCHANGED error
    /\ UNCHANGED <<mode, now, agentAvail, inputPresent, stream, analysisText,
                   agentCalls, simCalls, inputData, analysis, execution, body,
                   alertData, responses,
                   response, reqs, console>>

\* Time passes while the run is in progress.
Tick ==
    /\ pc \notin {"done", "failed"}
    /\ now < MaxNow
    /\ now' = now + 1
    /\ UNCHANGED <<mode, pc, agentAvail, inputPresent, stream, analysisText,
                   agentCalls, simCalls, inputData, analysis, execution, logging,
                   stepsRun, body, alertData, logs, responses, error,
                   response, reqs, console>>

----------------------------------------------------------------------------
(* The webhook servers: request bodies and the zod schemas.                *)

StringFields ==
    {"symbol", "strategy", "timeframe", "exchange", "message", "macd", "alert_name"}

NumberFields ==
    {"price", "timestamp", "volume", "rsi", "chart_time", "bar_index", "bar_time",
     "close", "high", "low", "open", "volume_24h"}

Fields == StringFields \cup NumberFields \cup {"action"}

\* A field of a z.object: its type, whether it is .optional(), the enum's values.
FieldSpec(type, optional, values) ==
    [type |-> type, optional |-> optional, values |-> values]

\* const tradingViewWebhookSchema = z.object({...})  (Mastra handler)
MastraWebhookSchema ==
    [f \in Fields |->
        CASE f = "symbol" -> FieldSpec("string", FALSE, {})
          [] f = "price" -> FieldSpec("number", FALSE, {})
          [] f = "action" -> FieldSpec("enum", FALSE, {"buy", "sell", "alert"})
          [] f \in StringFields -> FieldSpec("string", TRUE, {})
          [] OTHER -> FieldSpec("number", TRUE, {})]

\* Mutant of DemoWebhookSchema: the action enum copied from the Mastra handler.
DemoWebhookSchema_WithAlert ==
    [f \in {"symbol", "price", "action", "timeframe", "exchange", "message"} |->
        CASE f = "symbol" -> FieldSpec("string", FALSE, {})
          [] f = "price" -> FieldSpec("number", FALSE, {})
          [] f = "action" -> FieldSpec("enum", FALSE, {"buy", "sell", "alert"})
          [] OTHER -> FieldSpec("string", TRUE, {})]

\* const tradingViewWebhookSchema = z.object({...})  (demo handler)
DemoWebhookSchema ==
    [f \in {"symbol", "price", "action", "timeframe", "exchange", "message"} |->
        CASE f = "symbol" -> FieldSpec("string", FALSE, {})
          [] f = "price" -> FieldSpec("number", FALSE, {})
          [] f = "action" -> FieldSpec("enum", FALSE, {"buy", "sell"})
          [] OTHER -> FieldSpec("string", TRUE, {})]

\* Mutant of FieldOk: an absent field passes whether or not it is optional.
FieldOk_AllOptional(spec, v) ==
    IF v.t = "undefined" THEN TRUE
    ELSE CASE spec.type = "string" -> v.t = "string"
           [] spec.type = "number" -> v.t = "number"
           [] OTHER -> v.t = "string" /\ v.s \in spec.values

\* Whether value v passes the field's zod type.
FieldOk(spec, v) ==
    IF v.t = "undefined" THEN spec.optional
    ELSE CASE spec.type = "string" -> v.t = "string"
           [] spec.type = "number" -> v.t = "number"
           [] OTHER -> v.t = "string" /\ v.s \in spec.values

\* The issues of schema.parse(data): the fields that fail.
SchemaIssues(schema, data) ==
    {f \in DOMAIN schema : ~FieldOk(schema[f], data[f])}

\* The object schema.parse(data) returns: the schema's keys only.
SchemaOutput(schema, data) == [f \in DOMAIN schema |-> data[f]]

\* The minimal well-formed body, and the values an edit may give a field.
BaseBody ==
    [f \in Fields |->
        CASE f = "symbol" -> Str("BTCUSDT")
          [] f = "price" -> Num(45000)
          [] f = "action" -> Str("buy")
          [] OTHER -> Undef]

EditValues(f) ==
    CASE f = "symbol" -> {Undef, Str(""), Num(7)}
      [] f = "price" -> {Undef, Num(0), Str("45000")}
      [] f = "action" -> {Undef, Str("sell"), Str("alert"), Str("hold")}
      [] f \in {"strategy", "alert_name"} -> {Str(""), Str("rsi"), Num(7)}
      [] f \in {"timestamp", "bar_time", "volume", "volume_24h", "close"} ->
            {Num(0), Num(7), Null}
      [] f \in StringFields -> {Str("x"), Num(7)}
      [] OTHER -> {Num(7), Str("x")}

FieldOrder ==
    <<"symbol", "price", "action", "strategy", "timeframe", "exchange", "timestamp",
      "message", "volume", "rsi", "macd", "alert_name", "chart_time", "bar_index",
      "bar_time", "close", "high", "low", "open", "volume_24h">>

\* An edit sets one field, named by its place in FieldOrder, to a value;
\* place 0 is "no edit".
Edits ==
    {<<0, Undef>>}
    \cup UNION { {<<i, v>> : v \in EditValues(FieldOrder[i])} : i \in 1..Len(FieldOrder) }

\* Edits in increasing field order, the unused ones last.
Ordered(es) ==
    \A j \in 1..(Len(es) - 1) :
        es[j + 1][1] = 0 \/ (es[j][1] # 0 /\ es[j][1] < es[j + 1][1])

RECURSIVE ApplyEdits(_, _)
ApplyEdits(b, es) ==
    IF es = <<>> THEN b
    ELSE LET e == Head(es)
         IN  ApplyEdits(IF e[1] = 0 THEN b ELSE [b EXCEPT ![FieldOrder[e[1]]] = e[2]],
                        Tail(es))

\* HTTP responses.
Response200(logId, text) ==
    [status |-> 200, success |-> TRUE,
     message |-> "TradingView alert processed successfully",
     errors |-> {}, error |-> "", logId |-> <<logId>>, analysis |-> <<text>>]

Response400(issues) ==
    [status |-> 400, success |-> FALSE, message |-> "Invalid webhook data",
     errors |-> issues, error |-> "", logId |-> <<>>, analysis |-> <<>>]

Response500(msg) ==
    [status |-> 500, success |-> FALSE, message |-> "Internal server error",
     errors |-> {}, error |-> msg, logId |-> <<>>, analysis |-> <<>>]

\* An error thrown inside the handlers' try block.
ZodError(issues) == [zod |-> TRUE, issues |-> issues, message |-> "ZodError"]
PlainError(msg) == [zod |-> FALSE, issues |-> {}, message |-> msg]

\* Mutant of CatchResponses: no instanceof test, every error is answered 400.
CatchResponses_Always400(err) == <<Response400(err.issues)>>

\* Mutant of CatchResponses: the 400 branch does not return, so the 500
\* response is sent as well.
CatchResponses_NoReturn(err) ==
    IF err.zod THEN <<Response400(err.issues), Response500(err.message)>>
    ELSE <<Response500(err.message)>>

\* The catch block: the responses it sends for the error caught.
CatchResponses(err) ==
    IF err.zod THEN <<Response400(err.issues)>> ELSE <<Response500(err.message)>>

\* The request ends in the catch block.
HandlerCatches(err) ==
    /\ responses' = responses \o CatchResponses(err)
    /\ error' = <<err.message>>
    /\ pc' = "done"

----------------------------------------------------------------------------
(* The Mastra webhook handler: app.post('/webhook/tradingview').           *)

\* const alertData = {...}
MastraAlertData(v, t) ==
    [symbol |-> v.symbol,
     price |-> JsOr(JsOr(v.price, v.close), Num(0)),
     action |-> v.action,
     strategy |-> JsOr(v.strategy, v.alert_name),
     timeframe |-> v.timeframe,
     exchange |-> v.exchange,
     timestamp |-> JsOr(JsOr(v.timestamp, v.bar_time), Num(t)),
     message |-> v.message,
     volume |-> JsOr(v.volume, v.volume_24h),
     rsi |-> v.rsi,
     macd |-> v.macd]

WebhookLogEntry(t, alert, text) ==
    [id |-> t, timestamp |-> t, alert |-> alert, analysis |-> text]

\* The handler up to `await tradingAgent.stream(...)`.
MastraWebhookReceive ==
    /\ mode = "mastra" /\ pc = "received"
    /\ LET issues == SchemaIssues(MastraWebhookSchema, body)
           validatedData == SchemaOutput(MastraWebhookSchema, body)
       IN  IF issues # {}
           THEN /\ HandlerCatches(ZodError(issues))
                /\ UNCHANGED <<alertData, agentCalls, stream, response>>
           ELSE /\ alertData' = <<MastraAlertData(validatedData, now)>>
                /\ IF ~agentAvail
                   THEN /\ HandlerCatches(PlainError("Trading agent not found"))
                        /\ UNCHANGED <<agentCalls, stream, response>>
                   ELSE /\ agentCalls' = agentCalls + 1
                        /\ \E rejects \in BOOLEAN, r \in PlainResponses :
                             IF rejects
                             THEN /\ HandlerCatches(PlainError("agent.stream rejected"))
                                  /\ stream' = <<>> /\ UNCHANGED response
                             ELSE /\ pc' = "stream" /\ stream' = r /\ response' = r
                                  /\ UNCHANGED <<responses, error>>
    /\ UNCHANGED <<mode, now, agentAvail, inputPresent, analysisText, simCalls,
                   inputData, analysis, execution, logging, stepsRun, body, logs,
                   reqs, console>>

\* for await (const chunk of response.textStream) analysisText += chunk
MastraWebhookChunk ==
    /\ mode = "mastra" /\ pc = "stream"
    /\ stream # <<>>
    /\ analysisText' = analysisText \o Head(stream)
    /\ stream' = Tail(stream)
    /\ UNCHANGED <<mode, pc, now, agentAvail, inputPresent, agentCalls, simCalls,
                   inputData, analysis, execution, logging, stepsRun, body,
                   alertData, logs, responses, error,
                   response, reqs, console>>

\* The text stream throws while it is being read.
MastraWebhookStreamError ==
    /\ mode = "mastra" /\ pc = "stream"
    /\ HandlerCatches(PlainError("text stream failed"))
    /\ UNCHANGED <<mode, now, agentAvail, inputPresent, stream, analysisText,
                   agentCalls, simCalls, inputData, analysis, execution, logging,
                   stepsRun, body, alertData, logs,
                   response, reqs, console>>

\* The stream is exhausted: emit the log entry and answer 200.
MastraWebhookFinish ==
    /\ mode = "mastra" /\ pc = "stream"
    /\ stream = <<>>
    /\ logs' = Append(logs, WebhookLogEntry(now, alertData[1], analysisText))
    /\ responses' = Append(responses, Response200(now, analysisText))
    /\ pc' = "done"
    /\ UNCHANGED <<mode, now, agentAvail, inputPresent, stream, analysisText,
                   agentCalls, simCalls, inputData, analysis, execution, logging,
                   stepsRun, body, alertData, error,
                   response, reqs, console>>

----------------------------------------------------------------------------
(* The demo webhook handler and simulateAIAnalysis.                        *)

\* const alertData = {...}
DemoAlertData(v, t) ==
    [symbol |-> v.symbol,
     price |-> v.price,
     action |-> v.action,
     timeframe |-> v.timeframe,
     exchange |-> v.exchange,
     message |-> v.message,
     timestamp |-> Num(t)]

\* Math.floor(Math.random() * 30), for Math.random() = r / 30.
RandomThirtieths == {0, 15, 29}

\* Mutant of SimulatedAnalysis: the confidence lacks the offset of 70.
SimulatedAnalysis_NoOffset(alert, r) ==
    [symbol |-> alert.symbol,
     currentPrice |-> alert.price,
     recommendedAction |-> alert.action.s,
     confidence |-> r,
     reasoning |-> <<alert.symbol, alert.action, alert.price,
                     JsOr(alert.message, Str("No additional message provided."))>>,
     riskLevel |-> "medium",
     targetPrice |-> IF alert.action.s = "buy" THEN <<alert.price.n * 105, 100>>
                     ELSE <<alert.price.n * 95, 100>>,
     stopLoss |-> IF alert.action.s = "buy" THEN <<alert.price.n * 98, 100>>
                  ELSE <<alert.price.n * 102, 100>>,
     positionSize |-> "2% of portfolio",
     timeframe |-> JsOr(alert.timeframe, Str("1h"))]

\* The object simulateAIAnalysis returns; prices times 1.05 (0.95, 0.98, 1.02)
\* are kept as <<numerator, 100>>.
SimulatedAnalysis(alert, r) ==
    [symbol |-> alert.symbol,
     currentPrice |-> alert.price,
     recommendedAction |-> alert.action.s,
     confidence |-> r + 70,
     reasoning |-> <<alert.symbol, alert.action, alert.price,
                     JsOr(alert.message, Str("No additional message provided."))>>,
     riskLevel |-> "medium",
     targetPrice |-> IF alert.action.s = "buy" THEN <<alert.price.n * 105, 100>>
                     ELSE <<alert.price.n * 95, 100>>,
     stopLoss |-> IF alert.action.s = "buy" THEN <<alert.price.n * 98, 100>>
                  ELSE <<alert.price.n * 102, 100>>,
     positionSize |-> "2% of portfolio",
     timeframe |-> JsOr(alert.timeframe, Str("1h"))]

\* The handler up to the await inside simulateAIAnalysis (setTimeout).
DemoWebhookReceive ==
    /\ mode = "demo" /\ pc = "received"
    /\ LET issues == SchemaIssues(DemoWebhookSchema, body)
           validatedData == SchemaOutput(DemoWebhookSchema, body)
       IN  IF issues # {}
           THEN /\ HandlerCatches(ZodError(issues))
                /\ UNCHANGED <<alertData, simCalls>>
           ELSE /\ alertData' = <<DemoAlertData(validatedData, now)>>
                /\ simCalls' = simCalls + 1
                /\ pc' = "simulate"
                /\ UNCHANGED <<responses, error>>
    /\ UNCHANGED <<mode, now, agentAvail, inputPresent, stream, analysisText,
                   agentCalls, inputData, analysis, execution, logging, stepsRun,
                   body, logs,
                   response, reqs, console>>

\* The timer fires: build the analysis, emit the log entry and answer 200.
DemoWebhookFinish ==
    /\ mode = "demo" /\ pc = "simulate"
    /\ \E r \in RandomThirtieths :
         LET a == SimulatedAnalysis(alertData[1], r)
         IN  /\ analysis' = <<a>>
             /\ logs' = Append(logs, WebhookLogEntry(now, alertData[1], a))
             /\ responses' = Append(responses, Response200(now, a))
    /\ pc' = "done"
    /\ UNCHANGED <<mode, now, agentAvail, inputPresent, stream, analysisText,
                   agentCalls, simCalls, inputData, execution, logging, stepsRun,
                   body, alertData, error,
                   response, reqs, console>>

----------------------------------------------------------------------------
(* The test endpoints: app.post('/test/trigger-analysis') of both servers. *)

\* const testData = {...} of the Mastra server.
MastraTestData(t) ==
    [symbol |-> Str("BTCUSDT"), price |-> Num(45000), action |-> Str("buy"),
     strategy |-> Str("RSI Oversold"), timeframe |-> Str("1h"),
     exchange |-> Str("binance"), timestamp |-> Num(t),
     message |-> Str("Test alert from manual trigger"),
     volume |-> Num(1000000), rsi |-> Num(30), macd |-> Str("bullish")]

\* const testData = {...} of the demo server.
DemoTestData ==
    [symbol |-> Str("BTCUSDT"), price |-> Num(45000), action |-> Str("buy"),
     timeframe |-> Str("1h"), exchange |-> Str("binance"),
     message |-> Str("Test alert from manual trigger")]

\* Mutant of TestResponse200: the response carries a log id.
TestResponse200_WithLogId(text) ==
    [status |-> 200, success |-> TRUE,
     message |-> "Test analysis executed successfully",
     errors |-> {}, error |-> "", logId |-> <<now>>, analysis |-> <<text>>]

\* res.status(200).json({success, message, analysis})
TestResponse200(text) ==
    [status |-> 200, success |-> TRUE,
     message |-> "Test analysis executed successfully",
     errors |-> {}, error |-> "", logId |-> <<>>, analysis |-> <<text>>]

TestResponse500(msg) ==
    [status |-> 500, success |-> FALSE, message |-> "Error executing test analysis",
     errors |-> {}, error |-> msg, logId |-> <<>>, analysis |-> <<>>]

\* The catch block of the test endpoints: 500 for every error.
TestCatches(err) ==
    /\ responses' = Append(responses, TestResponse500(err.message))
    /\ error' = <<err.message>>
    /\ pc' = "done"

\* The Mastra test endpoint up to `await tradingAgent.stream(...)`.
MastraTestReceive ==
    /\ mode = "mastraTest" /\ pc = "received"
    /\ alertData' = <<MastraTestData(now)>>
    /\ IF ~agentAvail
       THEN /\ TestCatches(PlainError("Trading agent not found"))
            /\ UNCHANGED <<agentCalls, stream, response>>
       ELSE /\ agentCalls' = agentCalls + 1
            /\ \E rejects \in BOOLEAN, r \in PlainResponses :
                 IF rejects
                 THEN /\ TestCatches(PlainError("agent.stream rejected"))
                      /\ stream' = <<>> /\ UNCHANGED response
                 ELSE /\ pc' = "stream" /\ stream' = r /\ response' = r
                      /\ UNCHANGED <<responses, error>>
    /\ UNCHANGED <<mode, now, agentAvail, inputPresent, analysisText, simCalls,
                   inputData, analysis, execution, logging, stepsRun, body, logs,
                   reqs, console>>

\* for await (const chunk of response.textStream) analysisText += chunk
MastraTestChunk ==
    /\ mode = "mastraTest" /\ pc = "stream"
    /\ stream # <<>>
    /\ analysisText' = analysisText \o Head(stream)
    /\ stream' = Tail(stream)
    /\ UNCHANGED <<mode, pc, now, agentAvail, inputPresent, agentCalls, simCalls,
                   inputData, analysis, execution, logging, stepsRun, body,
                   alertData, logs, responses, error, response, reqs, console>>

\* The text stream throws while it is being read.
MastraTestStreamError ==
    /\ mode = "mastraTest" /\ pc = "stream"
    /\ TestCatches(PlainError("text stream failed"))
    /\ UNCHANGED <<mode, now, agentAvail, inputPresent, stream, analysisText,
                   agentCalls, simCalls, inputData, analysis, execution, logging,
                   stepsRun, body, alertData, logs, response, reqs, console>>

\* The stream is exhausted: answer 200.
MastraTestFinish ==
    /\ mode = "mastraTest" /\ pc = "stream"
    /\ stream = <<>>
    /\ responses' = Append(responses, TestResponse200(analysisText))
    /\ pc' = "done"
    /\ UNCHANGED <<mode, now, agentAvail, inputPresent, stream, analysisText,
                   agentCalls, simCalls, inputData, analysis, execution, logging,
                   stepsRun, body, alertData, logs, error, response, reqs,
                   console>>

\* The demo test endpoint up to the await inside simulateAIAnalysis.
DemoTestReceive ==
    /\ mode = "demoTest" /\ pc = "received"
    /\ alertData' = <<DemoTestData>>
    /\ simCalls' = simCalls + 1
    /\ pc' = "simulate"
    /\ UNCHANGED <<mode, now, agentAvail, inputPresent, stream, analysisText,
                   agentCalls, inputData, analysis, execution, logging, stepsRun,
                   body, logs, responses, error, response, reqs, console>>

\* The timer fires: build the analysis and answer 200.
DemoTestFinish ==
    /\ mode = "demoTest" /\ pc = "simulate"
    /\ \E r \in RandomThirtieths :
         LET a == SimulatedAnalysis(alertData[1], r)
         IN  /\ analysis' = <<a>>
             /\ responses' = Append(responses, TestResponse200(a))
    /\ pc' = "done"
    /\ UNCHANGED <<mode, now, agentAvail, inputPresent, stream, analysisText,
                   agentCalls, simCalls, inputData, execution, logging, stepsRun,
                   body, alertData, logs, error, response, reqs, console>>

----------------------------------------------------------------------------
(* Two webhook requests in flight on one server.  Each call of the handler *)
(* has its own locals (reqs[i]); the handlers share the clock, the agent   *)
(* and the console.  A call gives up control only at its await points.     *)

ReqIds == {1, 2}

\* Bodies of the concurrent requests.
ConcurrentBodies ==
    { BaseBody,
      [BaseBody EXCEPT !["action"] = Str("sell"), !["message"] = Str("m")],
      [BaseBody EXCEPT !["symbol"] = Undef] }

\* The locals of a call that has not started to run.
NewRequest(b) ==
    [pc |-> "received", body |-> b, alertData |-> <<>>, stream |-> <<>>,
     text |-> <<>>, response |-> <<>>, fault |-> "none", tRecv |-> 0,
     tFin |-> 0, draw |-> 0, log |-> <<>>, responses |-> <<>>]

\* Mutant of TextSlot: analysisText is one variable of the module.
TextSlot_Shared(i) == 1

\* `let analysisText = ''` is a local of the handler call: request i
\* gathers its text in its own slot.
TextSlot(i) == i

\* The catch block, for the call i.
RequestCatches(i, err) ==
    [reqs[i] EXCEPT !.responses = @ \o CatchResponses(err), !.pc = "done"]

\* The handler call i up to its first await that yields.
ConcurrentReceive(i) ==
    /\ pc = "concurrent" /\ reqs[i].pc = "received"
    /\ LET schema == IF mode = "mastra" THEN MastraWebhookSchema
                     ELSE DemoWebhookSchema
           issues == SchemaIssues(schema, reqs[i].body)
           v == SchemaOutput(schema, reqs[i].body)
           alert == IF mode = "mastra" THEN MastraAlertData(v, now)
                    ELSE DemoAlertData(v, now)
           started == [reqs[i] EXCEPT !.alertData = <<alert>>, !.tRecv = now]
       IN  IF issues # {}
           THEN reqs' = [reqs EXCEPT ![i] = RequestCatches(i, ZodError(issues))]
           ELSE IF mode = "demo"
           THEN reqs' = [reqs EXCEPT ![i] = [started EXCEPT !.pc = "simulate"]]
           ELSE IF ~agentAvail
           THEN reqs' = [reqs EXCEPT ![i] =
                    [started EXCEPT
                        !.responses = CatchResponses(PlainError("Trading agent not found")),
                        !.pc = "done"]]
           ELSE \E rejects \in BOOLEAN, r \in PlainResponses :
                  IF rejects
                  THEN reqs' = [reqs EXCEPT ![i] =
                           [started EXCEPT
                               !.responses = CatchResponses(PlainError("agent.stream rejected")),
                               !.fault = "rejects", !.pc = "done"]]
                  ELSE reqs' = [[reqs EXCEPT ![i] =
                                    [started EXCEPT !.pc = "stream", !.stream = r,
                                                    !.response = r]]
                                EXCEPT ![TextSlot(i)].text = <<>>]
    /\ UNCHANGED <<mode, pc, now, agentAvail, inputPresent, stream, analysisText,
                   agentCalls, simCalls, inputData, analysis, execution, logging,
                   stepsRun, body, alertData, logs, responses, error, response,
                   console>>

\* for await (const chunk of response.textStream) analysisText += chunk
ConcurrentChunk(i) ==
    /\ pc = "concurrent" /\ reqs[i].pc = "stream"
    /\ reqs[i].stream # <<>>
    /\ reqs' = [[reqs EXCEPT ![i].stream = Tail(@)]
                EXCEPT ![TextSlot(i)].text = @ \o Head(reqs[i].stream)]
    /\ UNCHANGED <<mode, pc, now, agentAvail, inputPresent, stream, analysisText,
                   agentCalls, simCalls, inputData, analysis, execution, logging,
                   stepsRun, body, alertData, logs, responses, error, response,
                   console>>

\* The text stream of call i throws while it is being read.
ConcurrentStreamError(i) ==
    /\ pc = "concurrent" /\ reqs[i].pc = "stream"
    /\ reqs' = [reqs EXCEPT ![i] =
                  [RequestCatches(i, PlainError("text stream failed"))
                      EXCEPT !.fault = "stream"]]
    /\ UNCHANGED <<mode, pc, now, agentAvail, inputPresent, stream, analysisText,
                   agentCalls, simCalls, inputData, analysis, execution, logging,
                   stepsRun, body, alertData, logs, responses, error, response,
                   console>>

\* Call i resumes for the last time: it emits its log entry and answers 200.
ConcurrentFinish(i) ==
    /\ pc = "concurrent"
    /\ \/ mode = "mastra" /\ reqs[i].pc = "stream" /\ reqs[i].stream = <<>>
       \/ mode = "demo" /\ reqs[i].pc = "simulate"
    /\ \E r \in RandomThirtieths :
         LET result == IF mode = "mastra" THEN reqs[TextSlot(i)].text
                       ELSE SimulatedAnalysis(reqs[i].alertData[1], r)
             entry == WebhookLogEntry(now, reqs[i].alertData[1], result)
         IN  /\ mode = "mastra" => r = 0
             /\ console' = Append(console, entry)
             /\ reqs' = [reqs EXCEPT ![i] =
                           [@ EXCEPT !.log = <<entry>>, !.tFin = now, !.draw = r,
                                     !.responses = Append(@, Response200(now, result)),
                                     !.pc = "done"]]
    /\ UNCHANGED <<mode, pc, now, agentAvail, inputPresent, stream, analysisText,
                   agentCalls, simCalls, inputData, analysis, execution, logging,
                   stepsRun, body, alertData, logs, responses, error, response>>

----------------------------------------------------------------------------
(* Failure of the log statement: JSON.stringify(logEntry) or console.log   *)
(* throws.  These actions belong to SpecLogFault only.                     *)

\* log-trade-event: the statement is not inside a try block, the step throws.
LogTradeEventThrows ==
    /\ mode = "workflow" /\ pc = "log"
    /\ execution # <<>>
    /\ stepsRun' = Append(stepsRun, "log-trade-event")
    /\ StepThrows("log emission failed")
    /\ UNCHANGED <<mode, now, agentAvail, inputPresent, stream, analysisText,
                   agentCalls, simCalls, inputData, analysis, execution, logging,
                   body, alertData, logs, responses, response, reqs, console>>

\* Mastra webhook handler: the statement is inside the handler's try block,
\* before res.status(200); the catch block answers.
MastraWebhookLogThrows ==
    /\ mode = "mastra" /\ pc = "stream"
    /\ stream = <<>>
    /\ HandlerCatches(PlainError("log emission failed"))
    /\ UNCHANGED <<mode, now, agentAvail, inputPresent, stream, analysisText,
                   agentCalls, simCalls, inputData, analysis, execution, logging,
                   stepsRun, body, alertData, logs, response, reqs, console>>

\* Demo webhook handler: likewise.
DemoWebhookLogThrows ==
    /\ mode = "demo" /\ pc = "simulate"
    /\ \E r \in RandomThirtieths :
         analysis' = <<SimulatedAnalysis(alertData[1], r)>>
    /\ HandlerCatches(PlainError("log emission failed"))
    /\ UNCHANGED <<mode, now, agentAvail, inputPresent, stream, analysisText,
                   agentCalls, simCalls, inputData, execution, logging, stepsRun,
                   body, alertData, logs, response, reqs, console>>

----------------------------------------------------------------------------
(* Claims about the workflow (checked under SpecWorkflow).                 *)

\* C1: whenever execute-trade has returned an ExecutionResult for an
\* Analysis, executed is true exactly when confidence >= 70 and
\* recommendedAction is not 'hold'.
C1_GateDecision ==
    (mode = "workflow" /\ execution # <<>>) =>
        (execution[1].executed <=>
            (analysis[1].confidence >= 70 /\ analysis[1].recommendedAction # "hold"))

\* The boundary case (70, buy) has been executed.
C1_Witness ==
    /\ mode = "workflow" /\ execution # <<>>
    /\ analysis[1].confidence = 70 /\ analysis[1].recommendedAction = "buy"
    /\ execution[1].executed

\* A marker, stated by its parts: the keyword in any letter case at i, only
\* separators up to j, then the value.
HasNumberMarker(text, keyword) ==
    \E i \in 1..Len(text) :
        /\ ToLower(text[i]) = keyword
        /\ \E j \in (i + 1)..Len(text) :
             /\ \A m \in (i + 1)..(j - 1) : text[m] \in {":", " "}
             /\ IsDigit(text[j])
             /\ \E k \in (j + 1)..Len(text) :
                  /\ \A m \in j..(k - 1) : IsDigit(text[m])
                  /\ text[k] = "%"

HasWordMarker(text, keyword, words) ==
    \E i \in 1..Len(text) :
        /\ ToLower(text[i]) = keyword
        /\ \E j \in (i + 1)..Len(text) :
             /\ \A m \in (i + 1)..(j - 1) : text[m] \in {":", " "}
             /\ ToLower(text[j]) \in words

NoMarkers(text) ==
    /\ ~HasNumberMarker(text, "confidence")
    /\ ~HasWordMarker(text, "recommended action", {"buy", "sell", "hold"})
    /\ ~HasWordMarker(text, "risk level", {"low", "medium", "high"})

\* C3: when the agent's text holds none of the three markers, analyze-alert
\* returns confidence 50, recommendedAction 'hold', riskLevel 'medium', and
\* the step has raised no error.
C3_DefaultsWithoutMarkers ==
    (mode = "workflow" /\ analysis # <<>> /\ NoMarkers(analysis[1].reasoning)) =>
        /\ analysis[1].confidence = 50
        /\ analysis[1].recommendedAction = "hold"
        /\ analysis[1].riskLevel = "medium"
        /\ (pc = "execute" => error = <<>>)

\* A text with the confidence keyword but no value was analysed.
C3_Witness ==
    /\ mode = "workflow" /\ pc = "execute" /\ analysis # <<>>
    /\ NoMarkers(analysis[1].reasoning)
    /\ \E i \in 1..Len(analysis[1].reasoning) : analysis[1].reasoning[i] = "confidence"
    /\ analysis[1].confidence = 50

\* C4: the confidence analyze-alert returns is within [0,100], the bounds
\* of tradingAnalysisSchema.
C4_ConfidenceInRange ==
    (mode = "workflow" /\ analysis # <<>>) =>
        (analysis[1].confidence >= 0 /\ analysis[1].confidence <= 100)

\* C5: the recommendedAction analyze-alert returns is one of 'buy', 'sell',
\* 'hold' and the riskLevel one of 'low', 'medium', 'high', so that a hold
\* recommendation in any letter case is never executed.
C5_EnumValues ==
    /\ (mode = "workflow" /\ analysis # <<>>) =>
          /\ analysis[1].recommendedAction \in {"buy", "sell", "hold"}
          /\ analysis[1].riskLevel \in {"low", "medium", "high"}
    /\ (mode = "workflow" /\ execution # <<>>
          /\ ToLower(analysis[1].recommendedAction) = "hold") =>
          ~execution[1].executed

\* The execution call (the run's second agent.stream call) has failed.
ExecutionCallFailed ==
    mode = "workflow" /\ agentCalls = 2 /\ error # <<>>

\* C6 as stated: when the execution call fails the step does not fail; it
\* returns a result with executed = false.
C6_Original ==
    ExecutionCallFailed =>
        (pc # "failed" /\ execution # <<>> /\ ~execution[1].executed)

\* C6 as amended: when the gate chooses to execute and the execution call
\* fails, the execute-trade step fails with that error: no ExecutionResult
\* is produced, the run fails, and the log step does not run.
C6_ExecutionFailurePropagates ==
    ExecutionCallFailed =>
        /\ pc = "failed"
        /\ execution = <<>>
        /\ logs = <<>> /\ logging = <<>>
        /\ stepsRun = <<"analyze-alert", "execute-trade">>

\* The execution call's text stream failed after delivering a chunk.
C6_Witness ==
    /\ ExecutionCallFailed
    /\ ~GateSkips(analysis[1])
    /\ error = <<"text stream failed">>
    /\ analysisText # <<>>

\* C14: in the workflow, an agent text with none of the markers gives the
\* Analysis {hold, 50, medium} and an ExecutionResult with executed = false;
\* a text that lacks the confidence marker, or lacks the action marker,
\* never gives executed = true.  Stated by contraposition: an executed
\* result comes from a text with both the confidence and the action marker,
\* and an Analysis other than {hold, 50, medium} from a text with a marker.
C14_DegradesToHold ==
    (mode = "workflow" /\ execution # <<>>) =>
        LET text == analysis[1].reasoning IN
        /\ execution[1].executed =>
              /\ HasNumberMarker(text, "confidence")
              /\ HasWordMarker(text, "recommended action", {"buy", "sell", "hold"})
        /\ (\/ analysis[1].recommendedAction # "hold"
            \/ analysis[1].confidence # 50
            \/ analysis[1].riskLevel # "medium"
            \/ execution[1].executed) => ~NoMarkers(text)

\* A run has finished on a text that states a confidence of at least 70
\* and no action; nothing was executed.
C14_Witness ==
    /\ mode = "workflow" /\ pc = "done" /\ execution # <<>>
    /\ HasNumberMarker(analysis[1].reasoning, "confidence")
    /\ analysis[1].confidence >= 70
    /\ ~HasWordMarker(analysis[1].reasoning, "recommended action",
                      {"buy", "sell", "hold"})
    /\ ~execution[1].executed

\* The order in which the workflow chains its steps.
StepOrder == <<"analyze-alert", "execute-trade", "log-trade-event">>

\* C17: the steps of a run start in the order analyze-alert, execute-trade,
\* log-trade-event, each at most once; once the first two have succeeded
\* (trade executed or skipped) the log step is the next to run and it runs
\* once; it never runs in a run where an earlier step failed.
C17_StepsInOrder ==
    mode = "workflow" =>
        /\ Len(stepsRun) <= Len(StepOrder)
        /\ stepsRun = SubSeq(StepOrder, 1, Len(stepsRun))
        /\ Len(logs) <= 1
        /\ (pc = "log" <=>
              (Len(stepsRun) = 2 /\ analysis # <<>> /\ execution # <<>>
               /\ error = <<>>))
        /\ pc = "log" => ENABLED LogTradeEvent
        /\ pc = "done" =>
              (stepsRun = StepOrder /\ Len(logs) = 1 /\ logging # <<>>
               /\ analysis # <<>> /\ execution # <<>> /\ error = <<>>)
        /\ pc = "failed" =>
              (Len(stepsRun) \in {1, 2} /\ logs = <<>> /\ logging = <<>>)

\* A run whose trade was skipped has run the log step, after the other two.
C17_Witness ==
    /\ mode = "workflow" /\ pc = "done"
    /\ ~execution[1].executed
    /\ stepsRun = StepOrder /\ Len(logs) = 1

\* C18: when the gate skips, execute-trade makes no agent call (the run's
\* only call is the analysis call) and its result carries no tradeId; an
\* executed result follows a second agent call and carries a tradeId.
C18_SkipMakesNoCall ==
    /\ (mode = "workflow" /\ execution # <<>>) =>
          IF execution[1].executed
          THEN agentCalls = 2 /\ execution[1].tradeId # <<>>
          ELSE agentCalls = 1 /\ execution[1].tradeId = <<>>
    /\ (mode = "workflow" /\ analysis # <<>> /\ GateSkips(analysis[1])) =>
          agentCalls = 1

\* The gate skipped a recommendation of hold with confidence 100.
C18_Witness ==
    /\ mode = "workflow" /\ pc = "done"
    /\ analysis[1].confidence = 100 /\ analysis[1].recommendedAction = "hold"
    /\ ~execution[1].executed /\ execution[1].tradeId = <<>>
    /\ agentCalls = 1

----------------------------------------------------------------------------
(* Claims about the webhook handlers (checked under SpecWebhook).          *)

\* The action values each handler's schema accepts.
AcceptedActions == IF mode = "demo" THEN {"buy", "sell"} ELSE {"buy", "sell", "alert"}

\* The body lacks symbol or price, or its action is outside the enum.
MissingRequired ==
    \/ body["symbol"].t = "undefined"
    \/ body["price"].t = "undefined"
    \/ ~(body["action"].t = "string" /\ body["action"].s \in AcceptedActions)

\* C2: in both handlers, a request whose body lacks symbol or price or has
\* an action outside the enum is answered 400, and in that request neither
\* the agent nor simulateAIAnalysis is called and no log entry is emitted.
C2_ValidationPrecedesCollaborators ==
    (mode \in {"mastra", "demo"} /\ MissingRequired) =>
        /\ agentCalls = 0 /\ simCalls = 0
        /\ logs = <<>>
        /\ pc \in {"received", "done"}
        /\ (pc = "done" => (Len(responses) = 1 /\ responses[1].status = 400))

\* The body {symbol: "BTCUSDT"} has been answered.
C2_Witness ==
    /\ mode \in {"mastra", "demo"} /\ pc = "done"
    /\ body["symbol"] = Str("BTCUSDT")
    /\ body["price"] = Undef /\ body["action"] = Undef
    /\ responses[1].status = 400

\* The errors the webhook handler's collaborator can raise.
CollaboratorErrors ==
    {"Trading agent not found", "agent.stream rejected", "text stream failed"}

\* C7: in the Mastra webhook handler, when the agent is missing, agent.stream
\* rejects or the text stream fails, the request ends with the one response
\* 500 {success: false, message, error}; no log entry is emitted and no 200
\* is sent.
C7_CollaboratorErrorGives500 ==
    (mode = "mastra" /\ error # <<>> /\ error[1] \in CollaboratorErrors) =>
        /\ pc = "done"
        /\ Len(responses) = 1
        /\ responses[1].status = 500
        /\ ~responses[1].success
        /\ responses[1].message = "Internal server error"
        /\ responses[1].error = error[1]
        /\ logs = <<>>

\* The text stream failed after a chunk had been read.
C7_Witness ==
    /\ mode = "mastra" /\ pc = "done"
    /\ error = <<"text stream failed">>
    /\ analysisText # <<>>
    /\ responses[1].status = 500

\* The handler has accepted the body: validation produced no error.
Accepted == alertData # <<>>

\* Every optional field of the schema that is present has its declared type.
OptionalFieldsTyped(fields) ==
    \A f \in fields \ {"symbol", "price", "action"} :
        body[f].t # "undefined" =>
            body[f].t = (IF f \in StringFields THEN "string" ELSE "number")

\* C8 as stated: the validator accepts exactly the bodies whose symbol is a
\* non-empty string, whose price is a number, whose action is buy, sell or
\* alert, and whose present optional fields have their declared types.
C8_Original ==
    (mode \in {"mastra", "demo"} /\ pc # "received") =>
        (Accepted <=>
            /\ body["symbol"].t = "string" /\ body["symbol"].s # ""
            /\ body["price"].t = "number"
            /\ body["action"].t = "string"
            /\ body["action"].s \in {"buy", "sell", "alert"}
            /\ OptionalFieldsTyped(Fields))

\* C8 as amended: the Mastra validator accepts exactly the bodies whose
\* symbol is a string (the empty string included), whose price is a number,
\* whose action is buy, sell or alert and whose present optional fields have
\* their declared types; the demo validator accepts exactly the bodies whose
\* symbol is a string, price a number, action buy or sell, and whose
\* timeframe, exchange and message, when present, are strings.  Every other
\* body is answered 400 with the offending fields and yields no alert.
C8_ValidatorAccepts ==
    (mode \in {"mastra", "demo"} /\ pc # "received") =>
        /\ Accepted <=>
            /\ body["symbol"].t = "string"
            /\ body["price"].t = "number"
            /\ body["action"].t = "string"
            /\ body["action"].s \in AcceptedActions
            /\ OptionalFieldsTyped(IF mode = "demo"
                                   THEN {"timeframe", "exchange", "message"}
                                   ELSE Fields)
        /\ ~Accepted =>
            /\ pc = "done" /\ Len(responses) = 1
            /\ responses[1].status = 400
            /\ responses[1].errors # {}
            /\ analysis = <<>> /\ logs = <<>>

\* The Mastra handler accepted a body whose symbol is the empty string.
C8_Witness ==
    /\ mode = "mastra" /\ pc # "received"
    /\ body["symbol"] = Str("")
    /\ Accepted

\* C9: the normalized alert equals the null-coalescing reference: a fallback
\* field is used only when the primary field is absent.
C9_NullCoalescing ==
    (mode = "mastra" /\ alertData # <<>>) =>
        /\ alertData[1].price = Coalesce(Coalesce(body["price"], body["close"]), Num(0))
        /\ alertData[1].strategy = Coalesce(body["strategy"], body["alert_name"])
        /\ alertData[1].volume = Coalesce(body["volume"], body["volume_24h"])
        /\ LET t == Coalesce(body["timestamp"], body["bar_time"])
           IN  IF Nullish(t)
               THEN alertData[1].timestamp.t = "number"
                    /\ alertData[1].timestamp.n \in 1..now
               ELSE alertData[1].timestamp = t

\* C10: a request gets at most one response, and exactly one once the
\* handler has finished; its status is 200 with logId and analysis when the
\* pipeline completed, 400 'Invalid webhook data' with the errors when
\* validation failed, 500 with the error text for any other failure.
C10_OneResponsePerOutcome ==
    mode \in {"mastra", "demo"} =>
        /\ Len(responses) <= 1
        /\ (pc = "done") <=> (Len(responses) = 1)
        /\ pc = "done" =>
            LET r == responses[1]
            IN  /\ r.status \in {200, 400, 500}
                /\ r.status = 200 <=> error = <<>>
                /\ r.status = 400 <=> error = <<"ZodError">>
                /\ r.status = 200 =>
                     /\ r.success /\ Len(r.logId) = 1 /\ Len(r.analysis) = 1
                     /\ Len(logs) = 1 /\ r.logId[1] = logs[1].id
                /\ r.status = 400 =>
                     /\ ~r.success /\ r.message = "Invalid webhook data"
                     /\ r.errors # {} /\ ~Accepted
                /\ r.status = 500 =>
                     /\ ~r.success /\ r.error = error[1] /\ Accepted

\* A request whose validation failed has been answered, once, with 400.
C10_Witness ==
    /\ mode \in {"mastra", "demo"} /\ pc = "done"
    /\ responses = <<Response400({"price", "action"})>>

----------------------------------------------------------------------------
(* Claims about the two routes (checked under SpecEndpoints).              *)

\* A request to the test endpoint has been answered 200.
TestSucceeded ==
    /\ mode \in {"mastraTest", "demoTest"} /\ pc = "done"
    /\ responses # <<>> /\ responses[1].status = 200

\* C11 as stated: a successful test request has emitted a log entry and its
\* response has the fields of the webhook's success response, logId
\* included.
C11_Original ==
    TestSucceeded =>
        /\ Len(logs) = 1
        /\ responses[1].logId # <<>>
        /\ responses[1].analysis # <<>>

\* C11 as amended: a successful test request runs the analysis on the fixed
\* sample alert and answers 200 with success, message and analysis only:
\* no logId, and no log entry is emitted; the webhook's success response
\* carries a logId, the id of the one log entry emitted.
C11_TestEndpointShape ==
    /\ TestSucceeded =>
          /\ Len(responses) = 1 /\ responses[1].success
          /\ responses[1].message = "Test analysis executed successfully"
          /\ responses[1].logId = <<>>
          /\ logs = <<>>
          /\ alertData[1].symbol = Str("BTCUSDT")
          /\ alertData[1].price = Num(45000)
          /\ alertData[1].action = Str("buy")
          /\ mode = "mastraTest" =>
                (agentCalls = 1 /\ responses[1].analysis = <<analysisText>>)
          /\ mode = "demoTest" =>
                /\ simCalls = 1
                /\ \E r \in 0..29 :
                     responses[1].analysis = <<SimulatedAnalysis(DemoTestData, r)>>
    /\ (mode \in {"mastra", "demo"} /\ responses # <<>>
          /\ responses[1].status = 200) =>
          /\ Len(logs) = 1
          /\ responses[1].logId = <<logs[1].id>>
    /\ mode \in {"mastraTest", "demoTest"} => logs = <<>>

\* The Mastra test endpoint has answered 200 with the text of a response of
\* several chunks.
C11_Witness ==
    /\ TestSucceeded /\ mode = "mastraTest"
    /\ Len(response) = MaxChunks
    /\ responses[1].analysis = <<analysisText>> /\ Len(analysisText) > 1

----------------------------------------------------------------------------
(* Claims about the demo webhook handler (checked under SpecDemo).         *)

\* The request body passes the demo handler's schema.
DemoPayloadValid ==
    mode = "demo" /\ SchemaIssues(DemoWebhookSchema, body) = {}

\* The demo handler has answered 200 with success, a logId and an analysis
\* whose recommendedAction is the alert's action and whose confidence is an
\* integer within [70,100].
DemoAnswered200 ==
    /\ pc = "done" /\ Len(responses) = 1
    /\ responses[1].status = 200 /\ responses[1].success
    /\ responses[1].logId # <<>>
    /\ responses[1].analysis # <<>>
    /\ responses[1].analysis[1].recommendedAction = body.action.s
    /\ responses[1].analysis[1].confidence \in 70..100

\* C15: on the demo server every payload that passes the schema eventually
\* receives 200 with success, a logId and an analysis whose recommendedAction
\* equals the alert's action and whose confidence is an integer in [70,100];
\* the simulated analysis never fails (no error, no other response).
C15_DemoAlwaysSucceeds ==
    /\ [](DemoPayloadValid =>
            /\ error = <<>>
            /\ \A i \in 1..Len(responses) : responses[i].status = 200
            /\ pc = "done" => DemoAnswered200)
    /\ (DemoPayloadValid ~> DemoAnswered200)

\* A sell alert was answered 200 with the largest confidence the draw gives.
C15_Witness ==
    /\ DemoPayloadValid /\ DemoAnswered200
    /\ body.action = Str("sell")
    /\ responses[1].analysis[1].confidence = 99
    /\ simCalls = 1

----------------------------------------------------------------------------
(* Claims about the workflow and the webhook handlers (checked under Spec). *)

\* C13 as stated: every workflow run makes exactly one analysis call and
\* produces exactly one Analysis.
C13_Original ==
    (mode = "workflow" /\ pc \in {"done", "failed"}) =>
        (agentCalls >= 1 /\ analysis # <<>>)

\* C13 as amended: no call is retried.  A webhook request makes at most one
\* agent.stream call.  A workflow run makes at most one agent call per step
\* that has run and none in the log step: at most one analysis call and at
\* most one execution call; it has made exactly one analysis call whenever
\* it holds an Analysis, and holds no Analysis when the analysis call was
\* not made or failed.
C13_CallsAtMostOnce ==
    /\ mode = "workflow" =>
          /\ agentCalls <= 2 /\ agentCalls <= Len(stepsRun)
          /\ analysis = <<>> => agentCalls <= 1
          /\ analysis # <<>> => agentCalls \in {1, 2}
          /\ pc \in {"analyzeStream", "execute"} => agentCalls = 1
          /\ pc = "executeStream" => agentCalls = 2
          /\ (pc = "failed" /\ Len(stepsRun) = 1) => analysis = <<>>
          /\ (pc = "failed" /\ Len(stepsRun) = 2) => execution = <<>>
    /\ mode = "mastra" => (agentCalls <= 1 /\ simCalls = 0)
    /\ mode = "demo" => (agentCalls = 0 /\ simCalls <= 1)

\* The analysis call's text stream failed after a chunk; the run has failed
\* with one agent call made.
C13_Witness ==
    /\ mode = "workflow" /\ pc = "failed"
    /\ error = <<"text stream failed">> /\ analysisText # <<>>
    /\ analysis = <<>> /\ agentCalls = 1

\* The concatenation of a sequence of chunks, in order.
RECURSIVE Flatten(_)
Flatten(chunks) ==
    IF chunks = <<>> THEN <<>> ELSE Head(chunks) \o Flatten(Tail(chunks))

\* C16: while chunks of the agent's stream are still to arrive nothing
\* downstream has happened (no Analysis, no ExecutionResult of an executed
\* trade, no log entry, no response), the text gathered so far followed by
\* the chunks to come is the whole response in arrival order, and the text
\* used downstream (the Analysis' reasoning, the log entry's and the 200
\* response's analysis) is the concatenation of all chunks in arrival order.
C16_WholeStreamThenDownstream ==
    /\ (mode = "workflow" /\ pc = "analyzeStream") =>
          /\ analysis = <<>> /\ execution = <<>> /\ logs = <<>>
          /\ analysisText \o Flatten(stream) = Flatten(response)
    /\ (mode = "workflow" /\ pc = "execute") =>
          /\ stream = <<>>
          /\ analysis[1].reasoning = Flatten(response)
    /\ (mode = "workflow" /\ pc = "executeStream") =>
          /\ execution = <<>> /\ logs = <<>>
          /\ analysisText \o Flatten(stream) = Flatten(response)
    /\ (mode = "workflow" /\ execution # <<>>) =>
          /\ stream = <<>>
          /\ execution[1].executed => analysisText = Flatten(response)
    /\ (mode = "mastra" /\ pc = "stream") =>
          /\ logs = <<>> /\ responses = <<>>
          /\ analysisText \o Flatten(stream) = Flatten(response)
    /\ (mode = "mastra" /\ logs # <<>>) =>
          /\ stream = <<>>
          /\ logs[1].analysis = Flatten(response)
    /\ (mode = "mastra" /\ responses # <<>> /\ responses[1].status = 200) =>
          /\ stream = <<>>
          /\ responses[1].analysis = <<Flatten(response)>>

\* An Analysis was made from a response of several different chunks.
C16_Witness ==
    /\ mode = "workflow" /\ pc = "execute"
    /\ Len(response) = MaxChunks
    /\ response[1] # response[2]
    /\ analysis[1].reasoning = Flatten(response)

----------------------------------------------------------------------------
(* Claims about concurrent requests (checked under SpecConcurrent).        *)

\* What the handler call q yields when it runs alone on server m with the
\* same body, the same answer of the agent (response or fault), the same
\* random draw and the same clock readings: its normalized alert, its log
\* entry and its HTTP responses.
AloneOutcome(m, avail, q) ==
    LET schema == IF m = "mastra" THEN MastraWebhookSchema ELSE DemoWebhookSchema
        issues == SchemaIssues(schema, q.body)
        v == SchemaOutput(schema, q.body)
        alert == IF m = "mastra" THEN MastraAlertData(v, q.tRecv)
                 ELSE DemoAlertData(v, q.tRecv)
        Failed(err) == [alertData |-> <<alert>>, log |-> <<>>,
                        responses |-> CatchResponses(err)]
        Succeeded(result) ==
            [alertData |-> <<alert>>,
             log |-> <<WebhookLogEntry(q.tFin, alert, result)>>,
             responses |-> <<Response200(q.tFin, result)>>]
    IN  IF issues # {}
        THEN [alertData |-> <<>>, log |-> <<>>,
              responses |-> CatchResponses(ZodError(issues))]
        ELSE IF m = "demo" THEN Succeeded(SimulatedAnalysis(alert, q.draw))
        ELSE IF ~avail THEN Failed(PlainError("Trading agent not found"))
        ELSE IF q.fault = "rejects" THEN Failed(PlainError("agent.stream rejected"))
        ELSE IF q.fault = "stream" THEN Failed(PlainError("text stream failed"))
        ELSE Succeeded(Flatten(q.response))

\* C19: for every interleaving of two webhook requests at their await
\* points, each finished request has the normalized alert, the analysis,
\* the log entry and the HTTP response it has when run alone; while a
\* request reads its stream its text is its own chunks in arrival order;
\* the console holds the log entries of the finished requests and nothing
\* else.
C19_RequestsIndependent ==
    pc = "concurrent" =>
        /\ \A i \in ReqIds :
              /\ reqs[i].pc = "done" =>
                    LET alone == AloneOutcome(mode, agentAvail, reqs[i])
                    IN  /\ reqs[i].alertData = alone.alertData
                        /\ reqs[i].log = alone.log
                        /\ reqs[i].responses = alone.responses
              /\ reqs[i].pc = "stream" =>
                    reqs[i].text \o Flatten(reqs[i].stream)
                        = Flatten(reqs[i].response)
              /\ reqs[i].log # <<>> =>
                    \E k \in 1..Len(console) : console[k] = reqs[i].log[1]
        /\ Len(console) = Cardinality({i \in ReqIds : reqs[i].log # <<>>})

\* Request 1 was answered 200 while request 2, with a different response of
\* the agent, was in the middle of its stream.
C19_Witness ==
    /\ pc = "concurrent" /\ mode = "mastra"
    /\ reqs[1].pc = "done" /\ reqs[1].responses[1].status = 200
    /\ Len(reqs[1].response) = MaxChunks
    /\ reqs[2].pc = "stream" /\ reqs[2].text # <<>> /\ reqs[2].stream # <<>>
    /\ reqs[2].response # reqs[1].response
    /\ reqs[2].text # reqs[1].text

\* C20: any two requests that each emitted a log entry, two requests that
\* finish within the same clock millisecond included, have different log
\* ids.
C20_LogIdsUnique ==
    pc = "concurrent" =>
        \A i, j \in ReqIds :
            (i # j /\ reqs[i].log # <<>> /\ reqs[j].log # <<>>) =>
                /\ reqs[i].log[1].id # reqs[j].log[1].id
                /\ reqs[i].responses[1].logId # reqs[j].responses[1].logId

----------------------------------------------------------------------------
(* Claims about a failing log statement (checked under SpecLogFault).      *)

\* The log statement has thrown.
LogFailed == error = <<"log emission failed">>

\* C12: a failure in assembling or emitting the log entry is swallowed: the
\* webhook request is still answered 200 (and with nothing else), and the
\* workflow run still completes.
C12_LogFailureSwallowed ==
    LogFailed =>
        /\ mode \in {"mastra", "demo"} =>
              (Len(responses) = 1 /\ responses[1].status = 200)
        /\ mode = "workflow" => pc # "failed"

----------------------------------------------------------------------------
(* Specifications.                                                         *)

InitWorkflow ==
    /\ mode = "workflow"
    /\ pc = "analyze"
    /\ now = 1
    /\ agentAvail \in BOOLEAN
    /\ inputPresent \in BOOLEAN
    /\ inputData \in WorkflowAlerts
    /\ stream = <<>> /\ analysisText = <<>>
    /\ agentCalls = 0 /\ simCalls = 0
    /\ analysis = <<>> /\ execution = <<>> /\ logging = <<>>
    /\ stepsRun = <<>>
    /\ body = BaseBody /\ alertData = <<>>
    /\ logs = <<>> /\ responses = <<>> /\ error = <<>>
    /\ response = <<>> /\ reqs = <<>> /\ console = <<>>

NextWorkflow ==
    \/ AnalyzeAlertBegin
    \/ AnalyzeAlertChunk
    \/ AnalyzeAlertStreamError
    \/ AnalyzeAlertReturn
    \/ ExecuteTradeBegin
    \/ ExecuteTradeChunk
    \/ ExecuteTradeStreamError
    \/ ExecuteTradeReturn
    \/ LogTradeEvent
    \/ Tick

SpecWorkflow == InitWorkflow /\ [][NextWorkflow]_vars

InitWebhook ==
    /\ \E es \in [1..MaxEdits -> Edits] :
         Ordered(es) /\ body = ApplyEdits(BaseBody, es)
    /\ mode \in {"mastra", "demo"}
    /\ pc = "received"
    /\ now = 1
    /\ agentAvail \in (IF mode = "mastra" THEN BOOLEAN ELSE {FALSE})
    /\ inputPresent = TRUE
    /\ inputData = Alert(Undef, Undef, Undef, Undef, Undef)
    /\ stream = <<>> /\ analysisText = <<>>
    /\ agentCalls = 0 /\ simCalls = 0
    /\ analysis = <<>> /\ execution = <<>> /\ logging = <<>>
    /\ stepsRun = <<>>
    /\ alertData = <<>>
    /\ logs = <<>> /\ responses = <<>> /\ error = <<>>
    /\ response = <<>> /\ reqs = <<>> /\ console = <<>>

NextWebhook ==
    \/ MastraWebhookReceive
    \/ MastraWebhookChunk
    \/ MastraWebhookStreamError
    \/ MastraWebhookFinish
    \/ DemoWebhookReceive
    \/ DemoWebhookFinish
    \/ Tick

SpecWebhook == InitWebhook /\ [][NextWebhook]_vars

\* The demo server alone, with the scheduling of the Node event loop: a
\* received request is handled, and the timer of simulateAIAnalysis fires.
InitDemo == InitWebhook /\ mode = "demo"

NextDemo ==
    \/ DemoWebhookReceive
    \/ DemoWebhookFinish
    \/ Tick

SpecDemo ==
    /\ InitDemo /\ [][NextDemo]_vars
    /\ WF_vars(DemoWebhookReceive) /\ WF_vars(DemoWebhookFinish)

Init == InitWorkflow \/ InitWebhook

Next == NextWorkflow \/ NextWebhook

Spec == Init /\ [][Next]_vars

\* The workflow and the webhook handlers with a log statement that may throw.
NextLogFault ==
    \/ Next
    \/ LogTradeEventThrows
    \/ MastraWebhookLogThrows
    \/ DemoWebhookLogThrows

SpecLogFault == Init /\ [][NextLogFault]_vars

\* Two requests to the webhook route of one server.
InitConcurrent ==
    /\ mode \in {"mastra", "demo"}
    /\ pc = "concurrent"
    /\ now = 1
    /\ agentAvail \in (IF mode = "mastra" THEN BOOLEAN ELSE {FALSE})
    /\ reqs \in [ReqIds -> {NewRequest(b) : b \in ConcurrentBodies}]
    /\ console = <<>>
    /\ inputPresent = TRUE
    /\ inputData = Alert(Undef, Undef, Undef, Undef, Undef)
    /\ stream = <<>> /\ analysisText = <<>>
    /\ agentCalls = 0 /\ simCalls = 0
    /\ analysis = <<>> /\ execution = <<>> /\ logging = <<>>
    /\ stepsRun = <<>>
    /\ body = BaseBody /\ alertData = <<>>
    /\ logs = <<>> /\ responses = <<>> /\ error = <<>>
    /\ response = <<>>

NextConcurrent ==
    \/ \E i \in ReqIds : ConcurrentReceive(i)
    \/ \E i \in ReqIds : ConcurrentChunk(i)
    \/ \E i \in ReqIds : ConcurrentStreamError(i)
    \/ \E i \in ReqIds : ConcurrentFinish(i)
    \/ Tick

SpecConcurrent == InitConcurrent /\ [][NextConcurrent]_vars

\* Both routes of both servers.
InitTest ==
    /\ mode \in {"mastraTest", "demoTest"}
    /\ pc = "received"
    /\ now = 1
    /\ agentAvail \in (IF mode = "mastraTest" THEN BOOLEAN ELSE {FALSE})
    /\ inputPresent = TRUE
    /\ inputData = Alert(Undef, Undef, Undef, Undef, Undef)
    /\ stream = <<>> /\ analysisText = <<>>
    /\ agentCalls = 0 /\ simCalls = 0
    /\ analysis = <<>> /\ execution = <<>> /\ logging = <<>>
    /\ stepsRun = <<>>
    /\ body = BaseBody /\ alertData = <<>>
    /\ logs = <<>> /\ responses = <<>> /\ error = <<>>
    /\ response = <<>> /\ reqs = <<>> /\ console = <<>>

NextTest ==
    \/ MastraTestReceive
    \/ MastraTestChunk
    \/ MastraTestStreamError
    \/ MastraTestFinish
    \/ DemoTestReceive
    \/ DemoTestFinish

InitEndpoints == InitWebhook \/ InitTest

NextEndpoints == NextWebhook \/ NextTest

SpecEndpoints == InitEndpoints /\ [][NextEndpoints]_vars

====
